---------------------------- MODULE Spec2Model ----------------------------
(***************************************************************************)
(* Stock purchasing optimisation: the model builder                        *)
(* (create_optimization_model), the external MILP solver it hands the      *)
(* problem to, and the result extractor (solve_model).                     *)
(*                                                                         *)
(* Solved variable values are floating point numbers in the program.  They *)
(* are represented here in fixed point: a value v stands for v / Res       *)
(* pallets, so Res is one whole pallet and 1 is the smallest deviation     *)
(* from an integer the solver may report.  Money computed from solved      *)
(* values (pallets * cost) is in the same unit: Res stands for one unit of *)
(* currency.                                                               *)
(***************************************************************************)
EXTENDS Integers, Sequences, FiniteSets, TLC

VARIABLES tables, data, pc, model, x, status, values, results, total_cost,
          plan_file, printed

vars == <<tables, data, pc, model, x, status, values, results, total_cost,
          plan_file, printed>>

-----------------------------------------------------------------------------
(* Bounds of the model *)

\* fixed-point resolution: Res ticks are one pallet (one currency unit)
Res == 1000
\* how many variables of one solution the solver may report one tick off the
\* integer they stand for
MaxPerturbed == 2

(* Program constants *)

UnitsPerPallet == 24

\* Python's None, and a value that is not None
None == <<>>
Some(v) == <<v>>

-----------------------------------------------------------------------------
(* Input data: the structure prepare_data_for_optimization produces *)

Items == {1, 2}
Suppliers == {1, 2}

\* iteration order of data['items'] and data['suppliers'] (dict insertion order)
ItemOrder == <<1, 2>>
SupplierOrder == <<1, 2>>

Item(cs, mn, mx, ads, exp) ==
    [current_stock |-> cs, min_stock |-> mn, max_stock |-> mx,
     expiry_days |-> exp, average_daily_sale |-> ads,
     expected_demand |-> ads * exp, units_per_pallet |-> UnitsPerPallet]

Supplier(mn, mx, lt) == [min_pallets |-> mn, max_pallets |-> mx, lead_time |-> lt]

\* an item whose minimum is met exactly by one pallet, a non-moving item that
\* is in stock, an item that needs nothing but has room for one pallet, and an
\* item stocked above its maximum
ItemProfiles ==
    { Item(0, 24, 48, 2, 40),
      Item(30, 10, 60, 0, 30),
      Item(30, 20, 70, 1, 60),
      Item(80, 10, 60, 1, 60) }

\* a supplier with a minimum order of two pallets and one without a minimum
SupplierProfiles ==
    { Supplier(2, 4, 5), Supplier(0, 1, 0) }

\* price lists: cost per pallet of every (item, supplier) pair that may be priced
CostTables ==
    { [i \in Items |-> [s \in Suppliers |-> 100 + 10 * (s - 1) + 20 * (i - 1) * (2 - s)
                                               - 5 * (i - 1) * (s - 1)]],
      [i \in Items |-> [s \in Suppliers |-> 100]] }

Range(f) == {f[k] : k \in DOMAIN f}

\* lists of suppliers without repetition (pricing_df[...]['SupplierID'].unique())
SupplierLists ==
    {<<>>} \cup {<<s>> : s \in Suppliers}
           \cup {st \in Suppliers \X Suppliers : st[1] # st[2]}

\* costs[item] has an entry for exactly the suppliers priced for the item
Data(its, sups, avail, table) ==
    [items |-> its, suppliers |-> sups, available_suppliers |-> avail,
     costs |-> [i \in Items |-> [s \in Range(avail[i]) |-> table[i][s]]]]

DataSets ==
    { Data(its, sups, avail, table) :
        its \in [Items -> ItemProfiles], sups \in [Suppliers -> SupplierProfiles],
        avail \in [Items -> SupplierLists], table \in CostTables }

\* the data of test_simple_optimization: two items, two suppliers, every pair
\* priced
FixtureData ==
    [items |-> <<Item(5, 10, 100, 1, 60), Item(15, 20, 200, 2, 40)>>,
     suppliers |-> <<Supplier(1, 50, 3), Supplier(2, 100, 5)>>,
     available_suppliers |-> <<(<<1, 2>>), (<<1, 2>>)>>,
     costs |-> <<(<<100, 110>>), (<<120, 105>>)>>]

\* no tables: the data is handed to the optimizer as it is
NoTables == <<>>

-----------------------------------------------------------------------------
(* Helpers *)

RECURSIVE Flatten(_)
Flatten(ss) == IF ss = <<>> THEN <<>> ELSE Head(ss) \o Flatten(Tail(ss))

\* sum of f[k] * g[k] over the keys k in S
RECURSIVE Dot(_, _, _)
Dot(S, f, g) ==
    IF S = {} THEN 0
    ELSE LET k == CHOOSE e \in S : TRUE IN f[k] * g[k] + Dot(S \ {k}, f, g)

Abs(n) == IF n < 0 THEN -n ELSE n

\* the keys of a dict in the order it yields them
Keys(order, f) == SelectSeq(order, LAMBDA k : k \in DOMAIN f)

Min(S) == CHOOSE m \in S : \A n \in S : m <= n
Max(S) == CHOOSE m \in S : \A n \in S : m >= n

-----------------------------------------------------------------------------
(* create_optimization_model *)

\* the keys of x: one per item and per supplier listed for the item
VariableKeys(d) ==
    UNION {{<<i, s>> : s \in Range(d.available_suppliers[i])} : i \in DOMAIN d.items}

\* pulp.LpVariable(name, lowBound=0, cat='Integer')
LpVariable(item_id, supplier_id) ==
    [name |-> <<"x", item_id, supplier_id>>, lowBound |-> 0, cat |-> "Integer"]

\* one variable for every pair, eligible or not
DecisionVariablesAllPairs(d) ==
    [p \in (DOMAIN d.items) \X (DOMAIN d.suppliers) |-> LpVariable(p[1], p[2])]

DecisionVariables(d) == [p \in VariableKeys(d) |-> LpVariable(p[1], p[2])]

\* "Total_Cost": the coefficient of every variable in the objective
Objective(d) == [p \in VariableKeys(d) |-> d.costs[p[1]][p[2]]]

\* a constraint  sum(coef[p] * x[p]) + constant  sense  rhs
Constraint(nm, cf, k, sn, r) ==
    [name |-> nm, coef |-> cf, constant |-> k, sense |-> sn, rhs |-> r]

ItemTerms(d, i) ==
    [p \in {<<i, s>> : s \in Range(d.available_suppliers[i])} |->
        d.items[i].units_per_pallet]

\* the stock on hand left out of the minimum stock constraint
MinStockConstraintNoStock(d, i) ==
    Constraint(<<"Min_Stock", i>>, ItemTerms(d, i), 0, ">=", d.items[i].min_stock)

MinStockConstraint(d, i) ==
    Constraint(<<"Min_Stock", i>>, ItemTerms(d, i), d.items[i].current_stock,
               ">=", d.items[i].min_stock)

MaxStockConstraint(d, i) ==
    Constraint(<<"Max_Stock", i>>, ItemTerms(d, i), d.items[i].current_stock,
               "<=", d.items[i].max_stock)

\* no stock constraints for an item that no supplier is listed for
StockConstraintsOfSuppliedItems(d) ==
    Flatten([k \in 1..Len(Keys(ItemOrder, d.items)) |->
        IF d.available_suppliers[Keys(ItemOrder, d.items)[k]] # <<>>
        THEN <<MinStockConstraint(d, Keys(ItemOrder, d.items)[k]),
               MaxStockConstraint(d, Keys(ItemOrder, d.items)[k])>>
        ELSE <<>>])

StockConstraints(d) ==
    Flatten([k \in 1..Len(Keys(ItemOrder, d.items)) |->
        <<MinStockConstraint(d, Keys(ItemOrder, d.items)[k]),
          MaxStockConstraint(d, Keys(ItemOrder, d.items)[k])>>])

items_for_supplier(d, s) ==
    SelectSeq(Keys(ItemOrder, d.items), LAMBDA i : s \in Range(d.available_suppliers[i]))

SupplierTerms(d, s) == [p \in {<<i, s>> : i \in Range(items_for_supplier(d, s))} |-> 1]

MinPalletsConstraint(d, s) ==
    Constraint(<<"Min_Pallets", s>>, SupplierTerms(d, s), 0,
               ">=", d.suppliers[s].min_pallets)

MaxPalletsConstraint(d, s) ==
    Constraint(<<"Max_Pallets", s>>, SupplierTerms(d, s), 0,
               "<=", d.suppliers[s].max_pallets)

\* the constraints of a supplier added whether or not it supplies any item
SupplierConstraintsUnguarded(d) ==
    Flatten([k \in 1..Len(Keys(SupplierOrder, d.suppliers)) |->
        <<MinPalletsConstraint(d, Keys(SupplierOrder, d.suppliers)[k]),
          MaxPalletsConstraint(d, Keys(SupplierOrder, d.suppliers)[k])>>])

SupplierConstraints(d) ==
    Flatten([k \in 1..Len(Keys(SupplierOrder, d.suppliers)) |->
        IF items_for_supplier(d, Keys(SupplierOrder, d.suppliers)[k]) # <<>>
        THEN <<MinPalletsConstraint(d, Keys(SupplierOrder, d.suppliers)[k]),
               MaxPalletsConstraint(d, Keys(SupplierOrder, d.suppliers)[k])>>
        ELSE <<>>])

\* the stock on hand left out of the lead-time/expiry constraint
LeadTimeExpiryConstraintNoStock(d, i, s) ==
    LET expected_demand_during_lead_time ==
            d.items[i].average_daily_sale * d.suppliers[s].lead_time
    IN  Constraint(<<"Lead_Time_Expiry", i, s>>,
                   [p \in {<<i, s>>} |-> d.items[i].units_per_pallet],
                   0, "<=",
                   d.items[i].expected_demand + expected_demand_during_lead_time)

LeadTimeExpiryConstraint(d, i, s) ==
    LET expected_demand_during_lead_time ==
            d.items[i].average_daily_sale * d.suppliers[s].lead_time
    IN  Constraint(<<"Lead_Time_Expiry", i, s>>,
                   [p \in {<<i, s>>} |-> d.items[i].units_per_pallet],
                   d.items[i].current_stock, "<=",
                   d.items[i].expected_demand + expected_demand_during_lead_time)

\* no lead-time/expiry constraint at all
NoLeadTimeExpiryConstraints(d) == <<>>

LeadTimeExpiryConstraints(d) ==
    Flatten([k \in 1..Len(Keys(ItemOrder, d.items)) |->
        [j \in 1..Len(d.available_suppliers[Keys(ItemOrder, d.items)[k]]) |->
            LeadTimeExpiryConstraint(d, Keys(ItemOrder, d.items)[k],
                d.available_suppliers[Keys(ItemOrder, d.items)[k]][j])]])

LpProblem(d) ==
    [sense |-> "Minimize", objective |-> Objective(d),
     constraints |-> StockConstraints(d) \o SupplierConstraints(d)
                     \o LeadTimeExpiryConstraints(d)]

NoModel == [sense |-> "Minimize", objective |-> <<>>, constraints |-> <<>>]

\* the builder looks up a key that is not there: a mapping of data, the
\* eligibility list of an item, the cost of a listed pair or the supplier of a
\* listed pair
KeyError(d) ==
    \/ "items" \notin DOMAIN d
    \/ \E i \in DOMAIN d.items :
        \/ "available_suppliers" \notin DOMAIN d
        \/ i \notin DOMAIN d.available_suppliers
        \/ \E s \in Range(d.available_suppliers[i]) :
            \/ "costs" \notin DOMAIN d
            \/ i \notin DOMAIN d.costs
            \/ s \notin DOMAIN d.costs[i]
            \/ "suppliers" \notin DOMAIN d
            \/ s \notin DOMAIN d.suppliers
    \/ "suppliers" \notin DOMAIN d

CreateOptimizationModel ==
    /\ pc \in {"start", "built"}
    /\ IF KeyError(data)
       THEN /\ pc' = "raised"
            /\ UNCHANGED <<model, x>>
       ELSE /\ model' = LpProblem(data)
            /\ x' = DecisionVariables(data)
            /\ pc' = "built"
    /\ UNCHANGED <<tables, data, status, values, results, total_cost, plan_file, printed>>

-----------------------------------------------------------------------------
(* The external MILP solver: model.solve(pulp.PULP_CBC_CMD(msg=False)) *)

\* the values a "<=" constraint with positive coefficients leaves to one of its
\* variables when the others are at their lower bound of zero
UpperBounds(m, p) ==
    {(m.constraints[k].rhs - m.constraints[k].constant) \div m.constraints[k].coef[p] :
        k \in {j \in 1..Len(m.constraints) :
                 /\ m.constraints[j].sense = "<="
                 /\ p \in DOMAIN m.constraints[j].coef
                 /\ \A q \in DOMAIN m.constraints[j].coef :
                        m.constraints[j].coef[q] > 0}}

\* the largest value a variable can take in a feasible solution; every variable
\* of a built problem occurs in its item's maximum stock constraint, and a
\* variable that is in no constraint stays at zero
VarBound(m, p) == IF UpperBounds(m, p) = {} THEN 0 ELSE Min(UpperBounds(m, p))

Assignments(m, xv) ==
    LET top == Max({VarBound(m, p) : p \in DOMAIN xv} \cup {0})
    IN  {a \in [DOMAIN xv -> 0..top] :
            \A p \in DOMAIN xv : a[p] >= xv[p].lowBound /\ a[p] <= VarBound(m, p)}

Holds(c, a) ==
    LET lhs == Dot(DOMAIN c.coef, c.coef, a) + c.constant
    IN  IF c.sense = ">=" THEN lhs >= c.rhs ELSE lhs <= c.rhs

Feasible(m, xv) ==
    {a \in Assignments(m, xv) : \A k \in 1..Len(m.constraints) : Holds(m.constraints[k], a)}

\* value of the objective under an assignment of numbers to the variables
ObjectiveValue(obj, a) == Dot(DOMAIN obj, obj, a)

Optima(obj, F) ==
    LET best == Min({ObjectiveValue(obj, a) : a \in F})
    IN  {a \in F : ObjectiveValue(obj, a) = best}

\* an integer variable comes back as a floating point number that may be one
\* tick above or below the integer
Perturbations(keys) ==
    {e \in [keys -> {-1, 0, 1}] : Cardinality({p \in keys : e[p] # 0}) <= MaxPerturbed}

NonOptimalStatuses == {"Infeasible", "Unbounded", "Undefined"}

\* what the solver may answer: a status and the value of every variable
SolverOutcomes(m, xv) ==
    LET F == Feasible(m, xv)
    IN  IF F = {}
        THEN {[status |-> st, values |-> [p \in DOMAIN xv |-> None]] :
                st \in NonOptimalStatuses}
        ELSE {[status |-> "Optimal",
               values |-> [p \in DOMAIN xv |-> Some(a[p] * Res + e[p])]] :
                a \in Optima(m.objective, F), e \in Perturbations(DOMAIN xv)}

-----------------------------------------------------------------------------
(* solve_model *)

\* Python's int() of a float: truncation toward zero
PyInt(t) == IF t >= 0 THEN t \div Res ELSE -((-t) \div Res)

\* `if pallets_ordered and pallets_ordered > 0`
IsOrdered(v) == v # None /\ v[1] # 0 /\ v[1] > 0

\* the two identifiers of a line exchanged
ResultRowSwapped(d, item_id, supplier_id, pallets_ordered) ==
    [ItemID |-> supplier_id, SupplierID |-> item_id,
     PalletsOrdered |-> PyInt(pallets_ordered),
     UnitsOrdered |-> PyInt(pallets_ordered * d.items[item_id].units_per_pallet),
     CostPerPallet |-> d.costs[item_id][supplier_id],
     TotalCost |-> pallets_ordered * d.costs[item_id][supplier_id]]

ResultRow(d, item_id, supplier_id, pallets_ordered) ==
    LET units_ordered == pallets_ordered * d.items[item_id].units_per_pallet
        cost == pallets_ordered * d.costs[item_id][supplier_id]
    IN  [ItemID |-> item_id, SupplierID |-> supplier_id,
         PalletsOrdered |-> PyInt(pallets_ordered),
         UnitsOrdered |-> PyInt(units_ordered),
         CostPerPallet |-> d.costs[item_id][supplier_id],
         TotalCost |-> cost]

ItemRows(d, xv, vals, item_id) ==
    Flatten([j \in 1..Len(d.available_suppliers[item_id]) |->
        LET supplier_id == d.available_suppliers[item_id][j]
        IN  IF <<item_id, supplier_id>> \in DOMAIN xv
               /\ IsOrdered(vals[<<item_id, supplier_id>>])
            THEN <<ResultRow(d, item_id, supplier_id, vals[<<item_id, supplier_id>>][1])>>
            ELSE <<>>])

ExtractResults(d, xv, vals) ==
    Flatten([k \in 1..Len(Keys(ItemOrder, d.items)) |->
        ItemRows(d, xv, vals, Keys(ItemOrder, d.items)[k])])

\* model.objective.value()
TotalCost(m, vals) == ObjectiveValue(m.objective, [p \in DOMAIN vals |-> vals[p][1]])

\* only an infeasible problem is given up on
SolveModelReturnInfeasibleOnly(d, m, xv, out) ==
    IF out.status = "Infeasible"
    THEN <<None, None>>
    ELSE <<Some(ExtractResults(d, xv, out.values)), None>>

\* what solve_model returns for an answer of the solver: (results_df, total_cost)
SolveModelReturn(d, m, xv, out) ==
    IF out.status # "Optimal"
    THEN <<None, None>>
    ELSE <<Some(ExtractResults(d, xv, out.values)), Some(TotalCost(m, out.values))>>

SolveModel ==
    /\ pc = "built"
    /\ \E out \in SolverOutcomes(model, x) :
        /\ status' = out.status
        /\ values' = out.values
        /\ results' = SolveModelReturn(data, model, x, out)[1]
        /\ total_cost' = SolveModelReturn(data, model, x, out)[2]
    /\ pc' = "done"
    /\ UNCHANGED <<tables, data, model, x, plan_file, printed>>

\* the answers of a solver that names the verdict it reached: Infeasible for a
\* problem without a solution, Optimal otherwise
SolverVerdicts(m, xv) ==
    {out \in SolverOutcomes(m, xv) : out.status \in {"Optimal", "Infeasible"}}

\* solve_model with such a solver
SolveModelVerdict ==
    /\ pc = "built"
    /\ \E out \in SolverVerdicts(model, x) :
        /\ status' = out.status
        /\ values' = out.values
        /\ results' = SolveModelReturn(data, model, x, out)[1]
        /\ total_cost' = SolveModelReturn(data, model, x, out)[2]
    /\ pc' = "done"
    /\ UNCHANGED <<tables, data, model, x, plan_file, printed>>

-----------------------------------------------------------------------------

Init ==
    /\ tables = NoTables
    /\ data \in DataSets \cup {FixtureData}
    /\ plan_file = None
    /\ printed = None
    /\ pc = "start"
    /\ model = NoModel
    /\ x = <<>>
    /\ status = "Not Solved"
    /\ values = <<>>
    /\ results = None
    /\ total_cost = None

Next == CreateOptimizationModel \/ SolveModel

Spec == Init /\ [][Next]_vars

\* the same runs with a solver that reports Infeasible for every problem that
\* has no solution
NextVerdict == CreateOptimizationModel \/ SolveModelVerdict

SpecVerdict == Init /\ [][NextVerdict]_vars

-----------------------------------------------------------------------------
(* What the claims speak of *)

\* an (item, supplier) pair is eligible iff the supplier is listed for the item
EligiblePairs(d) ==
    {p \in (DOMAIN d.items) \X (DOMAIN d.suppliers) :
        \E j \in 1..Len(d.available_suppliers[p[1]]) :
            d.available_suppliers[p[1]][j] = p[2]}

SuppliersWithEligibleItems(d) == {p[2] : p \in EligiblePairs(d)}

Optimal == pc = "done" /\ status = "Optimal"

\* the plan lines of a returned plan
Lines == results[1]

\* sum of the numbers of a sequence
RECURSIVE SumSeq(_)
SumSeq(ns) == IF ns = <<>> THEN 0 ELSE Head(ns) + SumSeq(Tail(ns))

LinesOfItem(i) == SelectSeq(Lines, LAMBDA r : r.ItemID = i)
LinesOfSupplier(s) == SelectSeq(Lines, LAMBDA r : r.SupplierID = s)

UnitsOrderedOfItem(i) ==
    SumSeq([k \in 1..Len(LinesOfItem(i)) |-> LinesOfItem(i)[k].UnitsOrdered])

PalletsOrderedFromSupplier(s) ==
    SumSeq([k \in 1..Len(LinesOfSupplier(s)) |-> LinesOfSupplier(s)[k].PalletsOrdered])

-----------------------------------------------------------------------------
\* C5: whenever the solver status is not Optimal (Infeasible, Unbounded or any
\* other status) solve_model returns (None, None): no plan and no total cost.
C5_NonOptimalReturnsNone ==
    (pc = "done" /\ status # "Optimal") => (results = None /\ total_cost = None)

C5_Witness ==
    pc = "done" /\ status = "Unbounded" /\ results = None /\ total_cost = None

\* C6: the keys of the decision variables are exactly the eligible pairs, and
\* every variable is a non-negative integer variable.
C6_VariablesAreEligiblePairs ==
    pc # "start" =>
        /\ DOMAIN x = EligiblePairs(data)
        /\ \A p \in DOMAIN x : x[p].lowBound = 0 /\ x[p].cat = "Integer"

C6_Witness ==
    /\ pc = "built"
    /\ DOMAIN x = EligiblePairs(data)
    /\ x # <<>>
    /\ (Items \X Suppliers) \ DOMAIN x # {}

\* C7: in an Optimal result every plan line is for an eligible pair and no
\* pair has two lines.
C7_LinesEligibleAndDistinct ==
    Optimal =>
        /\ \A k \in 1..Len(Lines) :
            <<Lines[k].ItemID, Lines[k].SupplierID>> \in EligiblePairs(data)
        /\ \A k, l \in 1..Len(Lines) :
            (Lines[k].ItemID = Lines[l].ItemID
                /\ Lines[k].SupplierID = Lines[l].SupplierID) => k = l

C7_Witness ==
    /\ Optimal
    /\ Len(Lines) >= 2
    /\ (Items \X Suppliers) \ EligiblePairs(data) # {}

\* C10: the built problem is a function of the input data alone (building
\* again from the same data gives the same variables and constraints), with
\* as many variables as eligible pairs and 2*|items| + 2*|suppliers with an
\* eligible item| + |eligible pairs| constraints.
C10_BuildIsStructural ==
    pc # "start" =>
        /\ x = DecisionVariables(data)
        /\ model = LpProblem(data)
        /\ Cardinality(DOMAIN x) = Cardinality(EligiblePairs(data))
        /\ Len(model.constraints) =
              2 * Cardinality(DOMAIN data.items)
              + 2 * Cardinality(SuppliersWithEligibleItems(data))
              + Cardinality(EligiblePairs(data))
        /\ \A k, l \in 1..Len(model.constraints) :
              model.constraints[k].name = model.constraints[l].name => k = l

C10_Witness ==
    /\ pc = "built"
    /\ EligiblePairs(data) # {}
    /\ SuppliersWithEligibleItems(data) # DOMAIN data.suppliers
    /\ Len(model.constraints) = 2 * 2 + 2 * 1 + Cardinality(EligiblePairs(data))

-----------------------------------------------------------------------------
(* The optimisation problem as the specification states it *)

\* sum of a[k] over the keys k in S
RECURSIVE SumOf(_, _)
SumOf(S, a) ==
    IF S = {} THEN 0
    ELSE LET k == CHOOSE e \in S : TRUE IN a[k] + SumOf(S \ {k}, a)

PairsOfItem(d, i) == {p \in EligiblePairs(d) : p[1] = i}
PairsOfSupplier(d, s) == {p \in EligiblePairs(d) : p[2] = s}

StockAfter(d, a, i) ==
    d.items[i].current_stock + SumOf(PairsOfItem(d, i), a) * UnitsPerPallet

\* constraints 1-5 on an assignment of pallets to the eligible pairs
SatisfiesConstraints(d, a) ==
    /\ \A i \in DOMAIN d.items :
        /\ StockAfter(d, a, i) >= d.items[i].min_stock
        /\ StockAfter(d, a, i) <= d.items[i].max_stock
    /\ \A s \in SuppliersWithEligibleItems(d) :
        /\ SumOf(PairsOfSupplier(d, s), a) >= d.suppliers[s].min_pallets
        /\ SumOf(PairsOfSupplier(d, s), a) <= d.suppliers[s].max_pallets
    /\ \A p \in EligiblePairs(d) :
        a[p] * UnitsPerPallet + d.items[p[1]].current_stock
            <= d.items[p[1]].average_daily_sale * d.items[p[1]].expiry_days
               + d.items[p[1]].average_daily_sale * d.suppliers[p[2]].lead_time

\* constraint 2 lets no pair order more pallets than the largest max_stock holds
PlanBound(d) == Max({d.items[i].max_stock \div UnitsPerPallet : i \in DOMAIN d.items})

FeasiblePlans(d) ==
    {a \in [EligiblePairs(d) -> 0..PlanBound(d)] : SatisfiesConstraints(d, a)}

PlanCost(d, a) == Dot(EligiblePairs(d), [p \in EligiblePairs(d) |-> d.costs[p[1]][p[2]]], a)

\* the largest cost per pallet of the price lists
MaxCost == Max(UNION {UNION {Range(t[i]) : i \in Items} : t \in CostTables})

\* a solved value is within one tick of its integer, so the objective the
\* solver reports is within this much of the cost of the integer plan
CostTolerance == MaxPerturbed * MaxCost

\* C1: when solve_model reports Optimal, the total cost it returns is the least
\* cost of any assignment of non-negative integers to the eligible pairs that
\* satisfies constraints 1-5 (to within the tolerance of the solved values):
\* no feasible assignment is cheaper, and only eligible pairs are priced.
C1_TotalCostIsMinimal ==
    Optimal =>
        LET F == FeasiblePlans(data)
        IN  /\ DOMAIN model.objective = EligiblePairs(data)
            /\ F # {}
            /\ Abs(total_cost[1] - Min({PlanCost(data, a) : a \in F}) * Res)
                  <= CostTolerance

C1_Witness ==
    /\ Optimal
    /\ Cardinality(FeasiblePlans(data)) >= 2
    /\ \E a, b \in FeasiblePlans(data) : PlanCost(data, a) < PlanCost(data, b)
    /\ total_cost[1] > 0
    /\ (Items \X Suppliers) \ EligiblePairs(data) # {}

-----------------------------------------------------------------------------
(* Properties of the plan lines under near-integer solved values *)

\* the integer a solved value stands for: the nearest one
Nearest(v) == (v + Res \div 2) \div Res

\* C2: in an Optimal result the stock of every item after the order, its
\* current stock plus the units ordered on its plan lines, lies between its
\* minimum and its maximum stock.
C2_StockWithinBounds ==
    Optimal =>
        \A i \in DOMAIN data.items :
            /\ data.items[i].current_stock + UnitsOrderedOfItem(i)
                  >= data.items[i].min_stock
            /\ data.items[i].current_stock + UnitsOrderedOfItem(i)
                  <= data.items[i].max_stock

\* C3: in an Optimal result the pallets ordered from every supplier that is
\* ordered from lie between its minimum and its maximum number of pallets.
C3_SupplierWithinBounds ==
    Optimal =>
        \A s \in DOMAIN data.suppliers :
            PalletsOrderedFromSupplier(s) > 0 =>
                /\ PalletsOrderedFromSupplier(s) >= data.suppliers[s].min_pallets
                /\ PalletsOrderedFromSupplier(s) <= data.suppliers[s].max_pallets

\* C4: no plan line has PalletsOrdered <= 0, whatever value the solver returns.
C4_NoEmptyLine ==
    Optimal => \A k \in 1..Len(Lines) : Lines[k].PalletsOrdered >= 1

\* C8: the total cost of an Optimal result is the value of the solved
\* objective, and it is not negative when the plan has a line.
C8_TotalCostIsObjective ==
    Optimal =>
        /\ total_cost = Some(Dot(DOMAIN model.objective, model.objective,
                                 [p \in DOMAIN values |-> values[p][1]]))
        /\ Len(Lines) >= 1 => total_cost[1] >= 0

\* C9: an eligible pair whose solved value is within a tick of an integer
\* n >= 1 has a plan line with PalletsOrdered = n.
C9_NearIntegerIsRounded ==
    Optimal =>
        \A p \in EligiblePairs(data) :
            Nearest(values[p][1]) >= 1 =>
                \E k \in 1..Len(Lines) :
                    /\ Lines[k].ItemID = p[1]
                    /\ Lines[k].SupplierID = p[2]
                    /\ Lines[k].PalletsOrdered = Nearest(values[p][1])

-----------------------------------------------------------------------------
(* Suppliers without eligible items *)

\* values a supplier's minimum order may be set to, one above every maximum
MinPalletsValues ==
    {sp.min_pallets : sp \in SupplierProfiles}
        \cup {sp.max_pallets + 1 : sp \in SupplierProfiles}

\* C11: a supplier no item lists gets no decision variable and neither its
\* Min_Pallets nor its Max_Pallets constraint is in the built problem; the
\* problem is the same whatever the supplier's min_pallets is, so that value
\* cannot make it infeasible.
C11_NoConstraintsForSupplierWithoutItems ==
    pc \in {"built", "done"} =>
        \A s \in (DOMAIN data.suppliers) \ SuppliersWithEligibleItems(data) :
            /\ \A p \in DOMAIN x : p[2] # s
            /\ \A k \in 1..Len(model.constraints) :
                /\ model.constraints[k].name # <<"Min_Pallets", s>>
                /\ model.constraints[k].name # <<"Max_Pallets", s>>
                /\ \A p \in DOMAIN model.constraints[k].coef : p[2] # s
            /\ \A mp \in MinPalletsValues :
                LpProblem([data EXCEPT !.suppliers[s].min_pallets = mp]) = model

C11_Witness ==
    /\ Optimal
    /\ Len(Lines) >= 1
    /\ \E s \in DOMAIN data.suppliers :
        /\ s \notin SuppliersWithEligibleItems(data)
        /\ data.suppliers[s].min_pallets > 0
    /\ SuppliersWithEligibleItems(data) # {}

-----------------------------------------------------------------------------
(* Items without eligible suppliers *)

\* the constraints of everything but item i can be met: item i, which no
\* supplier is listed for, is given bounds that its stock on hand meets
OthersSatisfiable(d, i) ==
    FeasiblePlans([d EXCEPT !.items[i].min_stock = d.items[i].current_stock,
                            !.items[i].max_stock = d.items[i].current_stock]) # {}

\* C12 as stated: for an item without eligible suppliers, the rest being
\* satisfiable, the run is Optimal if current_stock >= min_stock and reports
\* Infeasible if current_stock < min_stock.
C12_StockAtLeastMinIsOptimal ==
    pc = "done" =>
        \A i \in DOMAIN data.items :
            (PairsOfItem(data, i) = {} /\ OthersSatisfiable(data, i)) =>
                /\ data.items[i].current_stock >= data.items[i].min_stock
                        => status = "Optimal"
                /\ data.items[i].current_stock < data.items[i].min_stock
                        => status = "Infeasible"

\* C12 (amended): for an item without eligible suppliers, the rest being
\* satisfiable, the run is Optimal if min_stock <= current_stock <= max_stock;
\* it reports Infeasible and returns no plan if current_stock < min_stock, and
\* likewise if current_stock > max_stock.
C12_StockWithinBoundsIsOptimal ==
    pc = "done" =>
        \A i \in DOMAIN data.items :
            (PairsOfItem(data, i) = {} /\ OthersSatisfiable(data, i)) =>
                /\ (/\ data.items[i].current_stock >= data.items[i].min_stock
                    /\ data.items[i].current_stock <= data.items[i].max_stock)
                        => status = "Optimal" /\ results # None
                /\ (\/ data.items[i].current_stock < data.items[i].min_stock
                    \/ data.items[i].current_stock > data.items[i].max_stock)
                        => status = "Infeasible" /\ results = None

C12_Witness ==
    /\ pc = "done"
    /\ status = "Infeasible"
    /\ \E i \in DOMAIN data.items :
        /\ PairsOfItem(data, i) = {}
        /\ OthersSatisfiable(data, i)
        /\ data.items[i].current_stock < data.items[i].min_stock
        /\ EligiblePairs(data) # {}

-----------------------------------------------------------------------------
(* The two-item, two-supplier fixture *)

\* C13: on the fixture the result is Optimal, the plan is not empty, the stock
\* of every item after the order lies in [min_stock, max_stock], the pallets
\* ordered from every supplier the plan uses lie in [min_pallets, max_pallets],
\* and the total cost is positive.
C13_FixturePlanWithinBounds ==
    (pc = "done" /\ data = FixtureData) =>
        /\ status = "Optimal"
        /\ results # None
        /\ Len(Lines) >= 1
        /\ \A i \in DOMAIN data.items :
            /\ data.items[i].current_stock + UnitsOrderedOfItem(i)
                  >= data.items[i].min_stock
            /\ data.items[i].current_stock + UnitsOrderedOfItem(i)
                  <= data.items[i].max_stock
        /\ \A s \in {Lines[k].SupplierID : k \in 1..Len(Lines)} :
            /\ PalletsOrderedFromSupplier(s) >= data.suppliers[s].min_pallets
            /\ PalletsOrderedFromSupplier(s) <= data.suppliers[s].max_pallets
        /\ total_cost[1] > 0

-----------------------------------------------------------------------------
(* main: one run after another, and the plan file they leave *)

\* the columns of the plan lines, written as the header row
Header ==
    <<"ItemID", "SupplierID", "PalletsOrdered", "UnitsOrdered", "CostPerPallet",
      "TotalCost">>

\* results_df.to_csv(output_file, index=False): the file is replaced by the
\* header row and one line per row of the frame
save_results(results_df) == [header |-> Header, lines |-> results_df]

\* what main prints about the outcome of the run
PlanSaved == "Optimal purchasing plan saved to optimal_purchasing_plan.csv"
Failed == "Failed to find an optimal solution."

\* the plan is saved whenever solve_model returned one, empty or not
MainReportSavesEmptyPlan ==
    /\ pc = "done"
    /\ IF results # None
       THEN /\ plan_file' = Some(save_results(results[1]))
            /\ printed' = Some(PlanSaved)
       ELSE /\ UNCHANGED plan_file
            /\ printed' = Some(Failed)
    /\ pc' = "finished"
    /\ UNCHANGED <<tables, data, model, x, status, values, results, total_cost>>

\* the end of main: the plan is saved if there is one and it is not empty,
\* otherwise the failure is printed
MainReport ==
    /\ pc = "done"
    /\ IF results # None /\ results[1] # <<>>
       THEN /\ plan_file' = Some(save_results(results[1]))
            /\ printed' = Some(PlanSaved)
       ELSE /\ UNCHANGED plan_file
            /\ printed' = Some(Failed)
    /\ pc' = "finished"
    /\ UNCHANGED <<tables, data, model, x, status, values, results, total_cost>>

\* data of the runs of main: item 1 needs one pallet or nothing, item 2 needs
\* nothing and has no supplier, no supplier has a minimum order
MainDataSets ==
    { Data(its, sups, avail, table) :
        its \in {f \in [Items -> ItemProfiles] :
                    /\ f[1] \in {Item(0, 24, 48, 2, 40), Item(30, 20, 70, 1, 60)}
                    /\ f[2] = Item(30, 20, 70, 1, 60)},
        sups \in [Suppliers -> {Supplier(0, 1, 0)}],
        avail \in {f \in [Items -> SupplierLists] : Len(f[1]) <= 1 /\ f[2] = <<>>},
        table \in CostTables }

\* main is started again, on the data then found in the Source directory
MainAgain ==
    /\ pc = "finished"
    /\ data' \in MainDataSets
    /\ pc' = "start"
    /\ model' = NoModel
    /\ x' = <<>>
    /\ status' = "Not Solved"
    /\ values' = <<>>
    /\ results' = None
    /\ total_cost' = None
    /\ printed' = None
    /\ UNCHANGED <<tables, plan_file>>

InitMain ==
    /\ tables = NoTables
    /\ data \in MainDataSets
    /\ plan_file = None
    /\ printed = None
    /\ pc = "start"
    /\ model = NoModel
    /\ x = <<>>
    /\ status = "Not Solved"
    /\ values = <<>>
    /\ results = None
    /\ total_cost = None

NextMain == CreateOptimizationModel \/ SolveModel \/ MainReport \/ MainAgain

SpecMain == InitMain /\ [][NextMain]_vars

\* the order lines a finished run produced
OrdersOfRun == IF results = None THEN <<>> ELSE results[1]

\* C14: after each run of main the plan file holds exactly that run's output,
\* the header row and one line per order of that run: it never holds lines of
\* an earlier run (a run without orders may leave no file at all).
C14_FileHoldsThisRun ==
    pc = "finished" =>
        IF plan_file = None
        THEN OrdersOfRun = <<>>
        ELSE plan_file[1] = save_results(OrdersOfRun)

-----------------------------------------------------------------------------
(* Inputs that break the contract of create_optimization_model *)

\* a mapping without one of its keys
Without(f, k) == [j \in (DOMAIN f) \ {k} |-> f[j]]

\* well-formed data: item 1 needs a pallet, item 2 needs nothing, no supplier
\* has a minimum order
ContractBaseData ==
    { Data(its, sups, avail, table) :
        its \in {f \in [Items -> ItemProfiles] :
                    f[1] = Item(0, 24, 48, 2, 40) /\ f[2] = Item(30, 20, 70, 1, 60)},
        sups \in [Suppliers -> {Supplier(0, 1, 0)}],
        avail \in [Items -> SupplierLists], table \in CostTables }

Mappings == {"items", "suppliers", "available_suppliers", "costs"}

\* data with one mapping missing
WithoutMapping(d) == {Without(d, f) : f \in Mappings}

\* data where one item has no eligibility entry
WithoutEligibilityEntry(d) ==
    {[d EXCEPT !.available_suppliers = Without(@, i)] : i \in DOMAIN d.items}

\* data where one supplier is not in suppliers
WithoutSupplier(d) ==
    {[d EXCEPT !.suppliers = Without(@, s)] : s \in DOMAIN d.suppliers}

\* data where one (item, supplier) pair has no cost
WithoutCost(d) ==
    {[d EXCEPT !.costs[p[1]] = Without(@, p[2])] : p \in Items \X Suppliers}

\* data where one (item, supplier) pair has a cost, listed or not
WithCost(d) ==
    {[d EXCEPT !.costs[p[1]] =
        [s \in (DOMAIN @) \cup {p[2]} |-> IF s \in DOMAIN @ THEN @[s] ELSE 100]] :
        p \in Items \X Suppliers}

ContractDataSets ==
    ContractBaseData
        \cup UNION {WithoutMapping(d) \cup WithoutEligibilityEntry(d)
                    \cup WithoutSupplier(d) \cup WithoutCost(d) \cup WithCost(d) :
                    d \in ContractBaseData}

InitContract ==
    /\ tables = NoTables
    /\ data \in ContractDataSets
    /\ plan_file = None
    /\ printed = None
    /\ pc = "start"
    /\ model = NoModel
    /\ x = <<>>
    /\ status = "Not Solved"
    /\ values = <<>>
    /\ results = None
    /\ total_cost = None

SpecContract == InitContract /\ [][Next]_vars

\* the suppliers listed for an item, none if the item has no eligibility entry
Listed(d, i) ==
    IF "available_suppliers" \in DOMAIN d /\ i \in DOMAIN d.available_suppliers
    THEN Range(d.available_suppliers[i])
    ELSE {}

\* the input contract of the builder is broken: a mapping or an item's
\* eligibility entry is missing, a listed pair names a supplier that is not in
\* suppliers or has no cost, or a pair with a cost is not listed
ViolatesContract(d) ==
    \/ ~(Mappings \subseteq DOMAIN d)
    \/ \E i \in DOMAIN d.items :
        \/ i \notin DOMAIN d.available_suppliers
        \/ \E s \in Listed(d, i) :
            \/ s \notin DOMAIN d.suppliers
            \/ i \notin DOMAIN d.costs
            \/ s \notin DOMAIN d.costs[i]
    \/ \E i \in DOMAIN d.costs : \E s \in DOMAIN d.costs[i] : s \notin Listed(d, i)

\* C15: when the input breaks the contract the build fails with an error and
\* returns no problem and no variables; it never goes through.
C15_ViolationFailsBuild ==
    (pc # "start" /\ ViolatesContract(data)) =>
        (pc = "raised" /\ model = NoModel /\ x = <<>>)

-----------------------------------------------------------------------------
(* prepare_data_for_optimization *)

\* the longest pricing table
MaxPricingRows == 3

ItemRow(id, it) ==
    [ItemID |-> id, CurrentStock |-> it.current_stock, MinStock |-> it.min_stock,
     MaxStock |-> it.max_stock, Expiry |-> it.expiry_days,
     AverageDailySale |-> it.average_daily_sale]

SupplierRow(id, sp) ==
    [SupplierID |-> id, MinPallets |-> sp.min_pallets, MaxPallets |-> sp.max_pallets,
     LeadTime |-> sp.lead_time]

PricingRows ==
    [ItemID : Items, SupplierID : Suppliers, CostPerPallet : {100, 110}]

\* items and suppliers tables list their rows by ascending identifier, each
\* identifier once; a pricing table is any list of pricing rows
ItemTables ==
    {SubSeq(<<ItemRow(1, Item(0, 24, 48, 2, 40)), ItemRow(2, Item(30, 20, 70, 1, 60))>>,
            1, n) : n \in 1..2}

SupplierTables ==
    {SubSeq(<<SupplierRow(1, Supplier(0, 1, 0)), SupplierRow(2, Supplier(2, 4, 5))>>,
            1, n) : n \in 1..2}

PricingTables == UNION {[1..n -> PricingRows] : n \in 0..MaxPricingRows}

TableSets ==
    [items_df : ItemTables, suppliers_df : SupplierTables, pricing_df : PricingTables]

\* calculate_expected_demand(item_data, days)
calculate_expected_demand(item, days) == item.AverageDailySale * days

\* the last row of a table that has the identifier: a later assignment to a
\* key of a dict replaces the earlier one
LastItemRow(df, id) == df[Max({k \in 1..Len(df) : df[k].ItemID = id})]
LastSupplierRow(df, id) == df[Max({k \in 1..Len(df) : df[k].SupplierID = id})]

\* pricing_df[pricing_df['ItemID'] == item_id]
item_pricing(pricing_df, item_id) ==
    SelectSeq(pricing_df, LAMBDA row : row.ItemID = item_id)

\* Series.unique(): the values in order of first appearance
RECURSIVE Unique(_)
Unique(ss) ==
    IF ss = <<>> THEN <<>>
    ELSE LET front == Unique(SubSeq(ss, 1, Len(ss) - 1))
         IN  IF ss[Len(ss)] \in Range(front) THEN front
             ELSE Append(front, ss[Len(ss)])

\* data['costs'][item_id]: every pricing row of the item assigns its cost
ItemCosts(pricing_df, item_id) ==
    LET rows == item_pricing(pricing_df, item_id)
    IN  [s \in {rows[k].SupplierID : k \in 1..Len(rows)} |->
            LastSupplierRow(rows, s).CostPerPallet]

prepare_data_for_optimization(items_df, suppliers_df, pricing_df) ==
    LET item_ids == {items_df[k].ItemID : k \in 1..Len(items_df)}
        supplier_ids == {suppliers_df[k].SupplierID : k \in 1..Len(suppliers_df)}
    IN  [items |->
            [id \in item_ids |->
                LET item == LastItemRow(items_df, id)
                IN  [current_stock |-> item.CurrentStock,
                     min_stock |-> item.MinStock,
                     max_stock |-> item.MaxStock,
                     expiry_days |-> item.Expiry,
                     average_daily_sale |-> item.AverageDailySale,
                     expected_demand |-> calculate_expected_demand(item, item.Expiry),
                     units_per_pallet |-> UnitsPerPallet]],
         suppliers |->
            [id \in supplier_ids |->
                LET supplier == LastSupplierRow(suppliers_df, id)
                IN  [min_pallets |-> supplier.MinPallets,
                     max_pallets |-> supplier.MaxPallets,
                     lead_time |-> supplier.LeadTime]],
         available_suppliers |->
            [id \in item_ids |->
                LET rows == item_pricing(pricing_df, id)
                IN  Unique([k \in 1..Len(rows) |-> rows[k].SupplierID])],
         costs |-> [id \in item_ids |-> ItemCosts(pricing_df, id)]]

\* no data yet
NoData == <<>>

PrepareData ==
    /\ pc = "loaded"
    /\ data' = prepare_data_for_optimization(tables.items_df, tables.suppliers_df,
                                             tables.pricing_df)
    /\ pc' = "start"
    /\ UNCHANGED <<tables, model, x, status, values, results, total_cost, plan_file, printed>>

InitPrepare ==
    /\ tables \in TableSets
    /\ data = NoData
    /\ plan_file = None
    /\ printed = None
    /\ pc = "loaded"
    /\ model = NoModel
    /\ x = <<>>
    /\ status = "Not Solved"
    /\ values = <<>>
    /\ results = None
    /\ total_cost = None

NextPrepare == PrepareData \/ CreateOptimizationModel \/ SolveModel

SpecPrepare == InitPrepare /\ [][NextPrepare]_vars

\* C16: after prepare_data_for_optimization every row (item, supplier, cost) of
\* the pricing table has its supplier as a key of costs[item] with that row's
\* cost, and the items and suppliers mappings have as many entries as their
\* tables have rows.
C16_EveryPricingRowIsACost ==
    pc # "loaded" =>
        /\ \A k \in 1..Len(tables.pricing_df) :
            LET row == tables.pricing_df[k]
            IN  /\ row.ItemID \in DOMAIN data.costs
                /\ row.SupplierID \in DOMAIN data.costs[row.ItemID]
                /\ data.costs[row.ItemID][row.SupplierID] = row.CostPerPallet
        /\ Cardinality(DOMAIN data.items) = Len(tables.items_df)
        /\ Cardinality(DOMAIN data.suppliers) = Len(tables.suppliers_df)

\* C17: whatever the tables, the prepared data meets the precondition of the
\* builder: every item has an available_suppliers and a costs entry, the keys
\* of costs[item] are exactly the suppliers listed for the item, none listed
\* twice, and every listed supplier is in suppliers.
C17_PreparedDataMeetsContract ==
    pc # "loaded" =>
        \A i \in DOMAIN data.items :
            /\ i \in DOMAIN data.available_suppliers
            /\ i \in DOMAIN data.costs
            /\ DOMAIN data.costs[i] = Range(data.available_suppliers[i])
            /\ Cardinality(Range(data.available_suppliers[i]))
                  = Len(data.available_suppliers[i])
            /\ Range(data.available_suppliers[i]) \subseteq DOMAIN data.suppliers

-----------------------------------------------------------------------------
(* The lead-time/expiry constraint and stock that will not sell in time *)

\* C18: for an item that does not sell (average_daily_sale = 0) and is in
\* stock, the lead-time/expiry constraint of every eligible pair is
\* x * units_per_pallet <= -current_stock, and no Optimal result has a plan
\* line for the item, from any supplier.
C18_NoOrderForNonMovingItem ==
    pc \in {"built", "done"} =>
        \A i \in DOMAIN data.items :
            (data.items[i].average_daily_sale = 0 /\ data.items[i].current_stock > 0) =>
                /\ \A p \in PairsOfItem(data, i) :
                    \E k \in 1..Len(model.constraints) :
                        /\ model.constraints[k].name = <<"Lead_Time_Expiry", i, p[2]>>
                        /\ model.constraints[k].coef
                              = [q \in {p} |-> data.items[i].units_per_pallet]
                        /\ model.constraints[k].sense = "<="
                        /\ model.constraints[k].rhs - model.constraints[k].constant
                              = -data.items[i].current_stock
                /\ Optimal => \A k \in 1..Len(Lines) : Lines[k].ItemID # i

C18_Witness ==
    /\ pc = "done"
    /\ \E i \in DOMAIN data.items :
        /\ data.items[i].average_daily_sale = 0
        /\ data.items[i].current_stock > 0
        /\ Cardinality(PairsOfItem(data, i)) = 2
    /\ status # "Optimal"
    /\ results = None

\* the stock of the item exceeds what sells before expiry and during the
\* supplier's lead time
ExcessStock(d, p) ==
    d.items[p[1]].current_stock >
        d.items[p[1]].expected_demand
            + d.items[p[1]].average_daily_sale * d.suppliers[p[2]].lead_time

\* C19: if the stock of some item exceeds expected_demand +
\* average_daily_sale * lead_time of one of its eligible suppliers, the built
\* problem has no solution, whatever the other items and suppliers are: the
\* status is not Optimal and solve_model returns (None, None).
C19_ExcessStockIsInfeasible ==
    (pc = "done" /\ \E p \in EligiblePairs(data) : ExcessStock(data, p)) =>
        /\ Feasible(model, x) = {}
        /\ status \in NonOptimalStatuses
        /\ results = None
        /\ total_cost = None

C19_Witness ==
    /\ pc = "done"
    /\ results = None
    /\ total_cost = None
    /\ \E p \in EligiblePairs(data) :
        /\ ExcessStock(data, p)
        /\ \E i \in (DOMAIN data.items) \ {p[1]} :
            /\ PairsOfItem(data, i) # {}
            /\ data.items[i].current_stock < data.items[i].min_stock
            /\ OthersSatisfiable([data EXCEPT !.available_suppliers[p[1]] = <<>>], p[1])

-----------------------------------------------------------------------------
(* The minimum order of a supplier *)

\* C20: every supplier with an eligible item has its Min_Pallets constraint in
\* the built problem, and in every Optimal result each such supplier with
\* min_pallets > 0 has plan lines whose pallets sum to at least min_pallets.
C20_SupplierMinimumIsMet ==
    /\ pc \in {"built", "done"} =>
        \A s \in SuppliersWithEligibleItems(data) :
            \E k \in 1..Len(model.constraints) :
                model.constraints[k].name = <<"Min_Pallets", s>>
    /\ Optimal =>
        \A s \in SuppliersWithEligibleItems(data) :
            data.suppliers[s].min_pallets > 0 =>
                /\ LinesOfSupplier(s) # <<>>
                /\ PalletsOrderedFromSupplier(s) >= data.suppliers[s].min_pallets

-----------------------------------------------------------------------------
(* main and the empty plan of an Optimal result *)

\* no variable has a positive solved value
NoPositiveValue == \A p \in DOMAIN values : ~(values[p][1] > 0)

\* C21: solve_model returns (None, None) only when the status is not Optimal;
\* when the status is Optimal and no eligible pair has a positive solved value
\* it returns an empty plan that is not None, with the value of the objective.
\* main then treats this empty Optimal plan as it treats a status that is not
\* Optimal: it prints that no optimal solution was found and leaves the plan
\* file as it is.
C21_EmptyPlanIsReportedAsFailure ==
    [][pc = "done" =>
        /\ (results = None) <=> (status # "Optimal")
        /\ (status = "Optimal" /\ NoPositiveValue) =>
            /\ results = Some(<<>>)
            /\ total_cost = Some(Dot(DOMAIN model.objective, model.objective,
                                     [p \in DOMAIN values |-> values[p][1]]))
        /\ ((status # "Optimal" \/ results = Some(<<>>)) /\ pc' = "finished") =>
            /\ printed' = Some(Failed)
            /\ plan_file' = plan_file]_vars

C21_Witness ==
    /\ pc = "finished"
    /\ status = "Optimal"
    /\ DOMAIN x # {}
    /\ NoPositiveValue
    /\ results = Some(<<>>)
    /\ total_cost # None
    /\ printed = Some(Failed)
    /\ plan_file # None

=============================================================================
